---- MODULE Spec2Model ----
(***************************************************************************)
(* Model of the inference serving gateway,                                 *)
(* src/infra/services/model_server/model_server.py.                        *)
(*                                                                         *)
(* The process has two module globals, tokenizer and model (lines 32-33).  *)
(* load_model (35-50) runs on a thread of the event loop's default         *)
(* executor (startup_event, 67-71); the handlers health (63-65) and infer  *)
(* (73-79) run on the event loop, and infer offloads run_inference_sync    *)
(* (53-58) to the same executor.  Threads of the executor interleave with  *)
(* each other and with the event loop at statement granularity.  Nothing   *)
(* in the file orders request handling after startup_event: infer's own    *)
(* 503 branch (75-76) is the only guard, so the model lets handlers run at *)
(* any moment of the loader's execution.                                   *)
(***************************************************************************)
EXTENDS Integers, Sequences, FiniteSets, TLC

\* ---- bounds of the model ----
NumLoadCalls == 2   \* invocations of load_model in one process lifetime
NumRequests == 2    \* POST /infer requests
MaxWorkers == 2     \* threads of the default executor

LoadCalls == 1..NumLoadCalls
Requests == 1..NumRequests

\* ---- values ----
None == 0                       \* Python None; a handle is the id of the call that built it
Missing == "<missing>"          \* a field absent from the request body
\* The request bodies submitted: no prompt, an empty prompt, max_tokens = 0,
\* and a well-formed request.
Bodies == { [prompt |-> Missing, max_tokens |-> 5],
            [prompt |-> "",      max_tokens |-> 5],
            [prompt |-> "hello", max_tokens |-> 0],
            [prompt |-> "hello", max_tokens |-> 5] }
Invalid == [prompt |-> Missing, max_tokens |-> -1]

\* Texts the Model Runtime's generate and decode may return, as sequences of
\* characters: empty, all whitespace, and two words with leading, doubled and
\* trailing spaces.
Whitespace == {" "}
Texts == { <<>>, <<" ">>, <<" ", "a", " ", " ", "b", " ">> }
NoText == <<"<none>">>
NoResponse == [model |-> "", output |-> NoText, tokens |-> -1]
MODEL_NAME == "your-model-folder"

VARIABLES
    tokenizer,    \* global tokenizer (line 32)
    model,        \* global model (line 33)
    lpc,          \* position of each load_model invocation
    startup,      \* what startup_event saw at its await (line 71)
    queue,        \* work items submitted to the executor, not yet taken
    running,      \* work items a worker thread is executing
    runtime,      \* behaviour of the Model Runtime's generate in this run
    body,         \* request body of each /infer request
    rpc,          \* position of each infer call
    seen,         \* ReadinessState when the request was handled (lines 74-76)
    resp,         \* HTTP status answered to each request, 0 = none yet
    text,         \* what run_inference_sync returned for each request (line 58)
    out,          \* the InferResponse returned for each request (line 79)
    timedOut,     \* requests whose client stopped waiting (fastapi_client.py line 10)
    healthResp    \* last body returned by GET /health

vars == <<tokenizer, model, lpc, startup, queue, running, runtime,
          body, rpc, seen, resp, text, out, timedOut, healthResp>>

loaderVars == <<tokenizer, model, lpc, startup>>
requestVars == <<body, rpc, seen, resp, text, out, timedOut>>
healthVars == <<healthResp>>

\* ---- readiness, as the globals and the loader's position define it ----
\* A call is inside load_model's body once it has passed the check of line 37
\* and until it returns or raises.
InsideLoad(c) == lpc[c] \in {"l42", "l43", "l49"}

\* A call executes the Model Runtime's load iff it passed the check of line 37.
ExecutedLoad(c) == lpc[c] \in {"l42", "l43", "l49", "returned", "raised"}

ReadinessState ==
    IF \E c \in LoadCalls : InsideLoad(c) THEN "Loading"
    ELSE IF model # None THEN "Ready"
    ELSE IF \E c \in LoadCalls : lpc[c] = "raised" THEN "Failed"
    ELSE "Uninitialized"

Init ==
    /\ tokenizer = None
    /\ model = None
    /\ lpc = [c \in LoadCalls |-> "idle"]
    /\ startup = [c \in LoadCalls |-> "none"]
    /\ queue = <<>>
    /\ running = {}
    /\ runtime \in {"reliable", "faulty"}
    /\ body = [r \in Requests |-> Invalid]
    /\ rpc = [r \in Requests |-> "new"]
    /\ seen = [r \in Requests |-> "none"]
    /\ resp = [r \in Requests |-> 0]
    /\ text = [r \in Requests |-> NoText]
    /\ out = [r \in Requests |-> NoResponse]
    /\ timedOut = {}
    /\ healthResp = "none"

\* ---- the executor (loop.run_in_executor(None, ...), lines 71 and 78) ----
LoadItem(c) == [kind |-> "load", id |-> c]
InferItem(r) == [kind |-> "infer", id |-> r]

\* A worker thread is free and the item is the oldest one submitted.
CanTake(item) ==
    /\ queue # <<>>
    /\ Head(queue) = item
    /\ Cardinality(running) < MaxWorkers

\* ---- the event loop ----
\* Coroutines (startup_event, health, infer) run on the one event-loop thread:
\* none of them runs while that thread is inside a blocking call.  A call is
\* executing generate on the event loop when it is in run_inference_sync and no
\* executor thread holds its work item.
OnEventLoop(r) == rpc[r] = "generating" /\ InferItem(r) \notin running

EventLoopFree == \A r \in Requests : ~OnEventLoop(r)

\* ---- startup_event (lines 67-71): submit load_model to the executor ----
startup_event(c) ==
    /\ EventLoopFree
    /\ lpc[c] = "idle"
    /\ lpc' = [lpc EXCEPT ![c] = "queued"]
    /\ startup' = [startup EXCEPT ![c] = "awaiting"]
    /\ queue' = Append(queue, LoadItem(c))
    /\ UNCHANGED <<tokenizer, model, running, runtime>>
    /\ UNCHANGED requestVars
    /\ UNCHANGED healthVars

\* A worker thread takes load_model and arrives at line 37.
LoadStart(c) ==
    /\ lpc[c] = "queued"
    /\ CanTake(LoadItem(c))
    /\ queue' = Tail(queue)
    /\ running' = running \cup {LoadItem(c)}
    /\ lpc' = [lpc EXCEPT ![c] = "l37"]
    /\ UNCHANGED <<tokenizer, model, startup, runtime>>
    /\ UNCHANGED requestVars
    /\ UNCHANGED healthVars

\* load_model, lines 37-38: return at once when a model is stored.
LoadCheck(c) ==
    /\ lpc[c] = "l37"
    /\ IF model # None
         THEN /\ lpc' = [lpc EXCEPT ![c] = "skipped"]
              /\ running' = running \ {LoadItem(c)}
         ELSE /\ lpc' = [lpc EXCEPT ![c] = "l42"]
              /\ UNCHANGED running
    /\ UNCHANGED <<tokenizer, model, startup, queue, runtime>>
    /\ UNCHANGED requestVars
    /\ UNCHANGED healthVars

\* Variant of LoadTokenizer without the `global tokenizer` of line 36: the
\* tokenizer is bound to a local and the global stays None.
LoadTokenizer_LocalOnly(c) ==
    /\ lpc[c] = "l42"
    /\ \E ok \in BOOLEAN :
         IF ok
           THEN /\ lpc' = [lpc EXCEPT ![c] = "l43"]
                /\ UNCHANGED running
           ELSE /\ lpc' = [lpc EXCEPT ![c] = "raised"]
                /\ running' = running \ {LoadItem(c)}
    /\ UNCHANGED <<tokenizer, model, startup, queue, runtime>>
    /\ UNCHANGED requestVars
    /\ UNCHANGED healthVars

\* load_model, line 42: AutoTokenizer.from_pretrained returns or raises.
LoadTokenizer(c) ==
    /\ lpc[c] = "l42"
    /\ \E ok \in BOOLEAN :
         IF ok
           THEN /\ tokenizer' = c
                /\ lpc' = [lpc EXCEPT ![c] = "l43"]
                /\ UNCHANGED running
           ELSE /\ lpc' = [lpc EXCEPT ![c] = "raised"]
                /\ running' = running \ {LoadItem(c)}
                /\ UNCHANGED tokenizer
    /\ UNCHANGED <<model, startup, queue, runtime>>
    /\ UNCHANGED requestVars
    /\ UNCHANGED healthVars

\* load_model, lines 43-48: AutoModelForCausalLM.from_pretrained returns, and
\* the global is assigned, or raises.
LoadWeights(c) ==
    /\ lpc[c] = "l43"
    /\ \E ok \in BOOLEAN :
         IF ok
           THEN /\ model' = c
                /\ lpc' = [lpc EXCEPT ![c] = "l49"]
                /\ UNCHANGED running
           ELSE /\ lpc' = [lpc EXCEPT ![c] = "raised"]
                /\ running' = running \ {LoadItem(c)}
                /\ UNCHANGED model
    /\ UNCHANGED <<tokenizer, startup, queue, runtime>>
    /\ UNCHANGED requestVars
    /\ UNCHANGED healthVars

\* load_model, lines 49-50: model.eval(), then return.
LoadEval(c) ==
    /\ lpc[c] = "l49"
    /\ lpc' = [lpc EXCEPT ![c] = "returned"]
    /\ running' = running \ {LoadItem(c)}
    /\ UNCHANGED <<tokenizer, model, startup, queue, runtime>>
    /\ UNCHANGED requestVars
    /\ UNCHANGED healthVars

\* startup_event, line 71: the await ends with load_model's return, or
\* re-raises its exception, which nothing in startup_event catches.
StartupResume(c) ==
    /\ EventLoopFree
    /\ startup[c] = "awaiting"
    /\ lpc[c] \in {"skipped", "returned", "raised"}
    /\ startup' = [startup EXCEPT ![c] =
                      IF lpc[c] = "raised" THEN "raised" ELSE "complete"]
    /\ UNCHANGED <<tokenizer, model, lpc, queue, running, runtime>>
    /\ UNCHANGED requestVars
    /\ UNCHANGED healthVars

\* ---- POST /infer (lines 73-79) ----
\* InferRequest (lines 21-24), as FastAPI builds it from the body for the
\* parameter of line 74: prompt is a required str, max_tokens any int.
InferRequest(b) == IF b.prompt = Missing THEN Invalid ELSE b

\* Variant of infer whose line 78 awaits without handing run_inference_sync to
\* the executor.
infer_NoSubmit(r, b) ==
    /\ EventLoopFree
    /\ rpc[r] = "new"
    /\ body' = [body EXCEPT ![r] = b]
    /\ seen' = [seen EXCEPT ![r] = ReadinessState]
    /\ IF InferRequest(b) = Invalid
         THEN /\ resp' = [resp EXCEPT ![r] = 422]
              /\ rpc' = [rpc EXCEPT ![r] = "done"]
         ELSE IF model = None
         THEN /\ resp' = [resp EXCEPT ![r] = 503]
              /\ rpc' = [rpc EXCEPT ![r] = "done"]
         ELSE /\ rpc' = [rpc EXCEPT ![r] = "awaiting"]
              /\ UNCHANGED resp
    /\ UNCHANGED <<queue, running, runtime, text, out, timedOut>>
    /\ UNCHANGED loaderVars
    /\ UNCHANGED healthVars

\* Variant of infer whose line 78 calls run_inference_sync directly instead of
\* handing it to the executor.
infer_Inline(r, b) ==
    /\ EventLoopFree
    /\ rpc[r] = "new"
    /\ body' = [body EXCEPT ![r] = b]
    /\ seen' = [seen EXCEPT ![r] = ReadinessState]
    /\ IF InferRequest(b) = Invalid
         THEN /\ resp' = [resp EXCEPT ![r] = 422]
              /\ rpc' = [rpc EXCEPT ![r] = "done"]
         ELSE IF model = None
         THEN /\ resp' = [resp EXCEPT ![r] = 503]
              /\ rpc' = [rpc EXCEPT ![r] = "done"]
         ELSE /\ rpc' = [rpc EXCEPT ![r] = "generating"]
              /\ UNCHANGED resp
    /\ UNCHANGED <<queue, running, runtime, text, out, timedOut>>
    /\ UNCHANGED loaderVars
    /\ UNCHANGED healthVars

\* The handler up to its await.  A body that does not validate is answered
\* 422 by the framework before the function body runs; line 75 answers 503
\* when no model is stored; line 78 submits run_inference_sync otherwise.
infer(r, b) ==
    /\ EventLoopFree
    /\ rpc[r] = "new"
    /\ body' = [body EXCEPT ![r] = b]
    /\ seen' = [seen EXCEPT ![r] = ReadinessState]
    /\ IF InferRequest(b) = Invalid
         THEN /\ resp' = [resp EXCEPT ![r] = 422]
              /\ rpc' = [rpc EXCEPT ![r] = "done"]
              /\ UNCHANGED queue
         ELSE IF model = None
         THEN /\ resp' = [resp EXCEPT ![r] = 503]
              /\ rpc' = [rpc EXCEPT ![r] = "done"]
              /\ UNCHANGED queue
         ELSE /\ rpc' = [rpc EXCEPT ![r] = "awaiting"]
              /\ queue' = Append(queue, InferItem(r))
              /\ UNCHANGED resp
    /\ UNCHANGED <<running, runtime, text, out, timedOut>>
    /\ UNCHANGED loaderVars
    /\ UNCHANGED healthVars

\* Admission slots held around generate: infer takes none between its check
\* (line 75) and the submit of line 78, and run_inference_sync takes none.
SlotsHeld == 0

\* A worker thread takes run_inference_sync and enters it (lines 55-56).
InferStart(r) ==
    /\ rpc[r] = "awaiting"
    /\ CanTake(InferItem(r))
    /\ queue' = Tail(queue)
    /\ running' = running \cup {InferItem(r)}
    /\ rpc' = [rpc EXCEPT ![r] = "generating"]
    /\ UNCHANGED <<body, seen, resp, text, out, timedOut, runtime>>
    /\ UNCHANGED loaderVars
    /\ UNCHANGED healthVars

\* Variant of run_inference_sync that drops the globals when generate fails.
run_inference_sync_DropsModel(r) ==
    /\ rpc[r] = "generating"
    /\ \E ok \in BOOLEAN :
         /\ ok => tokenizer # None
         /\ ~ok => (tokenizer = None \/ runtime = "faulty")
         /\ rpc' = [rpc EXCEPT ![r] = IF ok THEN "returned" ELSE "raised"]
         /\ IF ok THEN \E t \in Texts : text' = [text EXCEPT ![r] = t]
                  ELSE UNCHANGED text
         /\ model' = IF ok THEN model ELSE None
         /\ tokenizer' = IF ok THEN tokenizer ELSE None
    /\ running' = running \ {InferItem(r)}
    /\ UNCHANGED <<body, seen, resp, out, timedOut, queue, runtime, lpc, startup>>
    /\ UNCHANGED healthVars

\* run_inference_sync (lines 53-58) returns the text or raises: calling a
\* tokenizer that is None raises, and generate raises when the runtime fails.
run_inference_sync(r) ==
    /\ rpc[r] = "generating"
    /\ \E ok \in BOOLEAN :
         /\ ok => tokenizer # None
         /\ ~ok => (tokenizer = None \/ runtime = "faulty")
         /\ rpc' = [rpc EXCEPT ![r] = IF ok THEN "returned" ELSE "raised"]
         /\ IF ok THEN \E t \in Texts : text' = [text EXCEPT ![r] = t]
                  ELSE UNCHANGED text
    /\ running' = running \ {InferItem(r)}
    /\ UNCHANGED <<body, seen, resp, out, timedOut, queue, runtime>>
    /\ UNCHANGED loaderVars
    /\ UNCHANGED healthVars

\* ---- the response of line 79 ----
\* str.split() with no argument: the maximal runs of non-whitespace characters.
RECURSIVE SplitFrom(_, _, _)
SplitFrom(t, i, cur) ==
    IF i > Len(t)
      THEN IF cur = <<>> THEN <<>> ELSE <<cur>>
      ELSE IF t[i] \in Whitespace
        THEN (IF cur = <<>> THEN <<>> ELSE <<cur>>) \o SplitFrom(t, i + 1, <<>>)
        ELSE SplitFrom(t, i + 1, Append(cur, t[i]))

\* Variant of Split that is str.split(" "): one piece per single space, empty
\* pieces included.
RECURSIVE SplitOnSpaceFrom(_, _, _)
SplitOnSpaceFrom(t, i, cur) ==
    IF i > Len(t)
      THEN <<cur>>
      ELSE IF t[i] = " "
        THEN <<cur>> \o SplitOnSpaceFrom(t, i + 1, <<>>)
        ELSE SplitOnSpaceFrom(t, i + 1, Append(cur, t[i]))

Split_OnSpace(t) == SplitOnSpaceFrom(t, 1, <<>>)

Split(t) == SplitFrom(t, 1, <<>>)

\* InferResponse(model=MODEL_NAME, output=output, meta={"tokens": len(output.split())})
InferResponse(t) == [model |-> MODEL_NAME, output |-> t, tokens |-> Len(Split(t))]

\* Variant of InferResume that submits run_inference_sync again when it raised.
InferResume_Retries(r) ==
    /\ EventLoopFree
    /\ rpc[r] \in {"returned", "raised"}
    /\ IF rpc[r] = "returned"
         THEN /\ resp' = [resp EXCEPT ![r] = 200]
              /\ out' = [out EXCEPT ![r] = InferResponse(text[r])]
              /\ rpc' = [rpc EXCEPT ![r] = "done"]
              /\ UNCHANGED queue
         ELSE /\ rpc' = [rpc EXCEPT ![r] = "awaiting"]
              /\ queue' = Append(queue, InferItem(r))
              /\ UNCHANGED <<resp, out>>
    /\ UNCHANGED <<body, seen, text, timedOut, running, runtime>>
    /\ UNCHANGED loaderVars
    /\ UNCHANGED healthVars

\* infer after its await (lines 78-79): the response is built from the text, or
\* the exception leaves the handler and the framework answers 500.
InferResume(r) ==
    /\ EventLoopFree
    /\ rpc[r] \in {"returned", "raised"}
    /\ resp' = [resp EXCEPT ![r] = IF rpc[r] = "returned" THEN 200 ELSE 500]
    /\ out' = [out EXCEPT ![r] =
                  IF rpc[r] = "returned" THEN InferResponse(text[r]) ELSE NoResponse]
    /\ rpc' = [rpc EXCEPT ![r] = "done"]
    /\ UNCHANGED <<body, seen, text, timedOut, queue, running, runtime>>
    /\ UNCHANGED loaderVars
    /\ UNCHANGED healthVars

\* ---- the client (src/infra/clients/fastapi_client.py) ----
\* call_model_service posts under httpx.AsyncClient(timeout=120.0) (line 10):
\* when generate outlasts it the client raises and stops waiting.  The request
\* carries no timeout and infer has none, so nothing changes in the server.
ClientTimeout(r) ==
    /\ rpc[r] = "generating"
    /\ r \notin timedOut
    /\ timedOut' = timedOut \cup {r}
    /\ UNCHANGED <<body, rpc, seen, resp, text, out, queue, running, runtime>>
    /\ UNCHANGED loaderVars
    /\ UNCHANGED healthVars

\* ---- GET /health (lines 63-65) ----
HealthBody == "ok"       \* {"ok": True}

health ==
    /\ EventLoopFree
    /\ healthResp' = HealthBody
    /\ UNCHANGED <<queue, running, runtime>>
    /\ UNCHANGED loaderVars
    /\ UNCHANGED requestVars

Next ==
    \/ \E c \in LoadCalls : startup_event(c)
    \/ \E c \in LoadCalls : LoadStart(c)
    \/ \E c \in LoadCalls : LoadCheck(c)
    \/ \E c \in LoadCalls : LoadTokenizer(c)
    \/ \E c \in LoadCalls : LoadWeights(c)
    \/ \E c \in LoadCalls : LoadEval(c)
    \/ \E c \in LoadCalls : StartupResume(c)
    \/ \E r \in Requests, b \in Bodies : infer(r, b)
    \/ \E r \in Requests : InferStart(r)
    \/ \E r \in Requests : run_inference_sync(r)
    \/ \E r \in Requests : InferResume(r)
    \/ \E r \in Requests : ClientTimeout(r)
    \/ health

Spec == Init /\ [][Next]_vars

\* Fairness the scheduling gives: a submitted work item is taken once it is the
\* oldest and a thread is free, a running thread makes progress, and the event
\* loop resumes a coroutine whose future is resolved.
Fairness ==
    /\ \A c \in LoadCalls :
         /\ WF_vars(LoadStart(c))
         /\ WF_vars(LoadCheck(c))
         /\ WF_vars(LoadTokenizer(c))
         /\ WF_vars(LoadWeights(c))
         /\ WF_vars(LoadEval(c))
         /\ WF_vars(StartupResume(c))
    /\ \A r \in Requests :
         /\ WF_vars(InferStart(r))
         /\ WF_vars(run_inference_sync(r))
         /\ WF_vars(InferResume(r))

\* The liveness specification: the server's own steps (health polls and the
\* client's timeout change no server state and are left out), with a runtime
\* whose generate does not fail.
FairInit == Init /\ runtime = "reliable"

FairNext ==
    \/ \E c \in LoadCalls : startup_event(c)
    \/ \E c \in LoadCalls : LoadStart(c)
    \/ \E c \in LoadCalls : LoadCheck(c)
    \/ \E c \in LoadCalls : LoadTokenizer(c)
    \/ \E c \in LoadCalls : LoadWeights(c)
    \/ \E c \in LoadCalls : LoadEval(c)
    \/ \E c \in LoadCalls : StartupResume(c)
    \/ \E r \in Requests, b \in Bodies : infer(r, b)
    \/ \E r \in Requests : InferStart(r)
    \/ \E r \in Requests : run_inference_sync(r)
    \/ \E r \in Requests : InferResume(r)

FairSpec == FairInit /\ [][FairNext]_vars /\ Fairness

\* ======================= claims =======================

Dispatched(r) == rpc[r] \in {"awaiting", "generating"}

\* C1: generate is executing or being started for an infer request only if
\* ReadinessState was Ready when that request passed the readiness check.
C1_DispatchOnlyWhenReady ==
    \A r \in Requests : Dispatched(r) => seen[r] = "Ready"

\* C2: however many callers invoke load_model, the Model Runtime's load is
\* executed at most once, at most one handle is ever stored, and all callers
\* that have finished observed the same outcome.
C2_LoadAtMostOnce ==
    /\ Cardinality({c \in LoadCalls : ExecutedLoad(c)}) <= 1
    /\ Cardinality({c \in LoadCalls : lpc[c] \in {"l49", "returned"}}) <= 1
    /\ \A c, d \in LoadCalls :
         (startup[c] \in {"complete", "raised"} /\ startup[d] \in {"complete", "raised"})
            => startup[c] = startup[d]

\* C3: ReadinessState changes only along Uninitialized -> Loading,
\* Loading -> Ready and Loading -> Failed, so Ready and Failed are terminal.
LifecycleEdges ==
    { <<"Uninitialized", "Loading">>, <<"Loading", "Ready">>, <<"Loading", "Failed">> }

C3_LifecycleEdgesOnly ==
    [][ReadinessState' # ReadinessState
          => <<ReadinessState, ReadinessState'>> \in LifecycleEdges]_vars

\* C4: a failed load is caught at the loader boundary (startup_event never sees
\* the exception), no further load is executed after it, and every request
\* handled in state Failed is answered 503.
C4_FailureCaughtAndFinal ==
    (\E c \in LoadCalls : lpc[c] = "raised") =>
        /\ \A c \in LoadCalls : startup[c] # "raised"
        /\ Cardinality({c \in LoadCalls : ExecutedLoad(c)}) <= 1
        /\ \A r \in Requests : seen[r] = "Failed" => resp[r] = 503

\* C5: a request handled while ReadinessState is Uninitialized or Loading is
\* answered 503 at once, whatever its body.
C5_NotReadyAnswered503 ==
    \A r \in Requests :
        seen[r] \in {"Uninitialized", "Loading"} => (rpc[r] = "done" /\ resp[r] = 503)

\* C6: a request with an empty or missing prompt, or max_tokens <= 0, is
\* answered 400 and generate is never invoked for it, in every ReadinessState.
BadBody(b) == b.prompt \in {Missing, ""} \/ b.max_tokens <= 0

C6_InvalidRejected400 ==
    \A r \in Requests :
        (rpc[r] # "new" /\ BadBody(body[r])) => (rpc[r] = "done" /\ resp[r] = 400)

\* C7: with capacity 1, at most one infer call executes generate at a time.
C7_AtMostOneGenerating ==
    Cardinality({r \in Requests : rpc[r] = "generating"}) <= 1

\* C8: with the state Ready and a runtime whose generate always returns, every
\* dispatched infer call eventually completes with a 200 response.
C8_EveryCallCompletes ==
    \A r \in Requests :
        (runtime = "reliable" /\ seen[r] = "Ready" /\ rpc[r] = "awaiting")
            ~> (resp[r] = 200)

C8_Witness ==
    /\ runtime = "reliable"
    /\ \A r \in Requests : seen[r] = "Ready" /\ Dispatched(r)
    /\ \E r \in Requests : rpc[r] = "generating"

\* C9: health() returns the status that names the current ReadinessState.
StatusName(st) ==
    CASE st = "Uninitialized" -> "uninitialized"
      [] st = "Loading" -> "loading"
      [] st = "Ready" -> "ready"
      [] st = "Failed" -> "failed"
      [] OTHER -> "none"

C9_HealthNamesState ==
    [][healthResp' # healthResp => healthResp' = StatusName(ReadinessState)]_vars

\* C10: when generate fails for one infer call, the step changes neither the
\* globals nor ReadinessState nor any other request, it gives the worker back,
\* and that caller alone is then answered 500.
C10_ComputeErrorIsLocal ==
    [][\A r \in Requests :
         /\ (rpc[r] = "generating" /\ rpc'[r] = "raised") =>
               /\ model' = model /\ tokenizer' = tokenizer
               /\ ReadinessState' = ReadinessState
               /\ running' = running \ {InferItem(r)}
               /\ queue' = queue
               /\ \A q \in Requests \ {r} : rpc'[q] = rpc[q] /\ resp'[q] = resp[q]
         /\ (rpc[r] = "raised" /\ rpc'[r] # "raised") =>
               /\ resp'[r] = 500
               /\ model' = model /\ tokenizer' = tokenizer
               /\ ReadinessState' = ReadinessState
               /\ \A q \in Requests \ {r} : rpc'[q] = rpc[q] /\ resp'[q] = resp[q]]_vars

C10_Witness ==
    \E r, q \in Requests :
        /\ resp[r] = 500
        /\ seen[q] = "Ready" /\ resp[q] = 200
        /\ ReadinessState = "Ready"

\* C14: no infer call passes the check of line 75 while a load_model call is
\* still inside its body.
PassedCheck(r) ==
    rpc[r] \in {"awaiting", "generating", "returned", "raised"} \/ resp[r] \in {200, 500}

C14_LoadHappensBeforeReady ==
    \A r \in Requests : PassedCheck(r) => seen[r] # "Loading"

\* C15: a request moves only Received -> (Validated ->) Dispatched ->
\* Completed | Failed, or Received -> Failed; Completed and Failed are final,
\* and a request is handed to the executor at most once.
Phase(p, st) ==
    CASE p = "new" -> "Received"
      [] p \in {"awaiting", "generating", "returned", "raised"} -> "Dispatched"
      [] p = "done" /\ st = 200 -> "Completed"
      [] OTHER -> "Failed"

RequestEdges ==
    { <<"Received", "Dispatched">>, <<"Received", "Failed">>,
      <<"Dispatched", "Completed">>, <<"Dispatched", "Failed">> }

C17_ModelImpliesTokenizer ==
    /\ model # None => tokenizer # None
    /\ \A r \in Requests : rpc[r] = "generating" => tokenizer # None

C17_Witness ==
    /\ \E c \in LoadCalls : lpc[c] = "raised" /\ tokenizer = c /\ model = None
    /\ \E r \in Requests : resp[r] = 503 /\ seen[r] = "Failed"

\* C13: generate always runs on an executor thread, and while a generate call
\* is in flight a health request and the handling of a new infer request can
\* be taken at once.
C13_GenerateOffTheAcceptPath ==
    (\E r \in Requests : rpc[r] = "generating") =>
        /\ \A r \in Requests : rpc[r] = "generating" => InferItem(r) \in running
        /\ ENABLED health
        /\ \A q \in Requests : rpc[q] = "new" => \A b \in Bodies : ENABLED infer(q, b)

C13_Witness ==
    \E r, q \in Requests :
        /\ rpc[r] = "generating"
        /\ rpc[q] = "done" /\ resp[q] = 422 /\ seen[q] = "Ready"
        /\ healthResp = HealthBody

\* C16: the number of admission slots held equals the number of infer calls
\* executing generate, so with no call in flight every slot is free.
C16_SlotsMatchCallsInFlight ==
    SlotsHeld = Cardinality({r \in Requests : rpc[r] = "generating"})

\* C11: a successful response carries exactly the text generate returned, and
\* meta.tokens is the number of whitespace-separated tokens of that output:
\* the number of positions where a non-whitespace run starts.
TokenCount(t) ==
    Cardinality({i \in 1..Len(t) :
                    t[i] \notin Whitespace /\ (i = 1 \/ t[i - 1] \in Whitespace)})

C11_OutputAndTokenCount ==
    \A r \in Requests :
        resp[r] = 200 =>
            /\ out[r].output = text[r]
            /\ text[r] \in Texts
            /\ out[r].tokens = TokenCount(out[r].output)

C11_Witness ==
    \E r, q \in Requests :
        /\ resp[r] = 200 /\ out[r].tokens = 2 /\ Len(out[r].output) = 6
        /\ resp[q] = 200 /\ out[q].tokens = 0 /\ Len(out[q].output) = 1

\* C12: when an in-flight generate call outlasts the client's timeout, that
\* caller is answered ComputeError (500) and the call no longer holds the
\* resource, so another call can be admitted.
C12_TimeoutAnsweredAndReleased ==
    \A r \in timedOut : resp[r] = 500 /\ InferItem(r) \notin running

====
